---------------------------- MODULE Spec2Model ----------------------------
(***************************************************************************)
(* Compound interest calculator: calculate_compound_interest and           *)
(* calculate_summary_statistics (src/compound_interest/calculations.py).   *)
(*                                                                         *)
(* Numbers.  The program computes in binary floating point: every          *)
(* arithmetic result is the value of the number grid nearest to the exact  *)
(* result, ties going to the even neighbour.  The model keeps that rule on *)
(* a decimal fixed-point grid: a monetary value is an integer number of    *)
(* grid units, UnitsPerCent units making one cent, and every product is    *)
(* rounded to the nearest unit, ties to even.  Sums of grid values are     *)
(* exact.  round(x, 2) rounds to the nearest cent, ties to even, as        *)
(* Python's round does on the exact value of its argument.                 *)
(***************************************************************************)
EXTENDS Integers, Sequences, FiniteSets, TLC

VARIABLES
    pc,              \* position of the program
    args,            \* the five arguments of calculate_compound_interest
    intervals_per_year,
    total_amount,    \* unrounded balance, in grid units
    total_invested,  \* unrounded principal + deposits, in grid units
    year,            \* loop variable of the outer loop
    period,          \* iterations of the inner loop done in this year
    data,            \* the list of yearly records built so far
    summary_arg,     \* the list handed to calculate_summary_statistics
    summary,         \* outcome of calculate_summary_statistics
    main,            \* the local variables and the position of main()
    io,              \* the last input or output operation of main()
    validated        \* a call of validate_input_parameters and its result

vars == <<pc, args, intervals_per_year, total_amount, total_invested, year,
          period, data, summary_arg, summary, main, io, validated>>

\* what the interactive session and the validator add to the state
session == <<main, io, validated>>

---------------------------------------------------------------------------
(* Bounds of the model *)

UnitsPerCent == 10

MaxYears == 5

MaxContribution == 200000

---------------------------------------------------------------------------
(* constants.py *)

\* the yearly interval with the monthly number of periods
INTERVALS_yearly_12 ==
    [D |-> [name |-> "Daily",   periods |-> 365],
     W |-> [name |-> "Weekly",  periods |-> 52],
     M |-> [name |-> "Monthly", periods |-> 12],
     Y |-> [name |-> "Yearly",  periods |-> 12]]

\* the weekly interval with 53 periods
INTERVALS_weekly_53 ==
    [D |-> [name |-> "Daily",   periods |-> 365],
     W |-> [name |-> "Weekly",  periods |-> 53],
     M |-> [name |-> "Monthly", periods |-> 12],
     Y |-> [name |-> "Yearly",  periods |-> 1]]

INTERVALS ==
    [D |-> [name |-> "Daily",   periods |-> 365],
     W |-> [name |-> "Weekly",  periods |-> 52],
     M |-> [name |-> "Monthly", periods |-> 12],
     Y |-> [name |-> "Yearly",  periods |-> 1]]

INTERVAL_CODES == <<"D", "W", "M", "Y">>

---------------------------------------------------------------------------
(* Arithmetic on the grid *)

\* n / d rounded to the nearest integer, ties to even (d > 0)
RoundHalfEven(n, d) ==
    LET q == n \div d
        r == n % d
    IN  IF 2 * r > d THEN q + 1
        ELSE IF 2 * r < d THEN q
        ELSE q + (q % 2)

\* the digits after the second are cut off instead of rounded
round2_truncate(x) == (x \div UnitsPerCent) * UnitsPerCent

\* Python round(x, 2): x in grid units, result in grid units (whole cents)
round2(x) == RoundHalfEven(x, UnitsPerCent) * UnitsPerCent

\* a whole number of cents as a grid value
Cents(c) == c * UnitsPerCent

\* interest_rate / 100 / intervals_per_year, kept as the exact fraction
\* num / den (interest_rate is a whole number of percent in the model)
RatePerPeriod(interest_rate, periods) ==
    [num |-> interest_rate, den |-> 100 * periods]

\* x * rpp: the balance is multiplied by the rate alone
ApplyInterest_rate_only(x, rpp) == RoundHalfEven(x * rpp.num, rpp.den)

\* x * (1 + rpp), rounded to the grid, ties to even.
\* x * (1 + num/den) = x + x*num/den; the quotient is taken in two parts so
\* that no intermediate product leaves the integers the checker computes with.
ApplyInterest(x, rpp) ==
    LET hi    == (x \div rpp.den) * rpp.num
        lo    == (x % rpp.den) * rpp.num
        whole == x + hi + (lo \div rpp.den)
        r     == lo % rpp.den
    IN  IF 2 * r > rpp.den THEN whole + 1
        ELSE IF 2 * r < rpp.den THEN whole
        ELSE whole + (whole % 2)

\* a division that yields 0 when the divisor is 0
truediv_silent(a, b) ==
    IF b = 0 THEN [raised |-> FALSE, num |-> 0, den |-> 1]
             ELSE [raised |-> FALSE, num |-> a, den |-> b]

\* a / b of Python floats: raises ZeroDivisionError when b = 0, otherwise
\* the quotient, kept as the exact fraction num / den
truediv(a, b) ==
    IF b = 0 THEN [raised |-> TRUE,  num |-> 0, den |-> 1]
             ELSE [raised |-> FALSE, num |-> a, den |-> b]

RECURSIVE Gcd(_, _)
Gcd(a, b) == IF b = 0 THEN a ELSE Gcd(b, a % b)

Abs(x) == IF x < 0 THEN -x ELSE x

\* round(q * k, 2) for a fraction q, in hundredths; the fraction is first
\* given a positive denominator and reduced, which leaves its value as it is
RoundScaled(q, k) ==
    LET sign == IF q.den < 0 THEN -1 ELSE 1
        g    == Gcd(Abs(q.num), Abs(q.den))
        n    == (sign * q.num) \div g
        d    == (sign * q.den) \div g
    IN  (n \div d) * (100 * k) + RoundHalfEven((n % d) * (100 * k), d)

---------------------------------------------------------------------------
(* The inputs the model draws *)

InitialAmounts == {0, 4, 6, 125, Cents(100000)}

InterestRates == {0, 5, 100}

Deposits == {0, 6, Cents(10000)}

\* what the run pays in, in grid units
Contribution(a) ==
    a.initial_amount
        + a.regular_deposit * INTERVALS[a.interval].periods * a.years

ValidArgs ==
    {a \in [initial_amount : InitialAmounts,
            interest_rate : InterestRates,
            years : 1..MaxYears,
            interval : {INTERVAL_CODES[i] : i \in 1..Len(INTERVAL_CODES)},
            regular_deposit : Deposits] :
        Contribution(a) <= Cents(MaxContribution)}

NoArgs ==
    [initial_amount |-> 0, interest_rate |-> 0, years |-> 0,
     interval |-> "Y", regular_deposit |-> 0]

NoDict == [k \in {} |-> 0]

NoOutcome == [kind |-> "none", exception |-> "", reads |-> {}, result |-> NoDict]

---------------------------------------------------------------------------
(* calculate_compound_interest (calculations.py lines 11-74; main.py lines  *)
(* 62-90 hold the same algorithm with the rate per period written inline)   *)

rate_per_period == RatePerPeriod(args.interest_rate, intervals_per_year)

\* the interest is the difference of the rounded amount and rounded invested
YearlyRecord_rounded_first(y, amount, invested) ==
    [Year |-> y,
     Total_Amount |-> round2(amount),
     Total_Invested |-> round2(invested),
     Interest_Earned |-> round2(amount) - round2(invested)]

\* round(total_invested) without the number of digits: whole currency units
YearlyRecord_invested_whole(y, amount, invested) ==
    [Year |-> y,
     Total_Amount |-> round2(amount),
     Total_Invested |-> RoundHalfEven(invested, 100 * UnitsPerCent)
                            * (100 * UnitsPerCent),
     Interest_Earned |-> round2(amount - invested)]

\* the record appended at the end of a year
YearlyRecord(y, amount, invested) ==
    [Year |-> y,
     Total_Amount |-> round2(amount),
     Total_Invested |-> round2(invested),
     Interest_Earned |-> round2(amount - invested)]

\* range(1, years): the last year is left out
YearRange_short(years) == 1..(years - 1)

\* range(1, years + 1)
YearRange(years) == 1..years

\* the deposit is added before the interest is applied
PeriodAmount_deposit_first(amount, rpp, deposit) ==
    ApplyInterest(amount + deposit, rpp)

\* one pass of the inner loop body on the balance: lines 60 and 62
PeriodAmount(amount, rpp, deposit) == ApplyInterest(amount, rpp) + deposit

\* the deposit is taken off the amount invested
PeriodInvested_minus(invested, deposit) == invested - deposit

\* one pass of the inner loop body on the amount invested: line 64
PeriodInvested(invested, deposit) == invested + deposit

\* main() has not collected anything yet
NoMain ==
    [pc |-> "ask_initial_amount", initial_amount |-> 0, interest_rate |-> 0,
     interval |-> "", choice |-> 0, regular_deposit |-> 0, years |-> 0,
     data |-> <<>>, save_data |-> "", another_calculation |-> ""]

\* an input or output operation: what was done, on what, with which records
IoEvent(op, target, records) ==
    [op |-> op, target |-> target, data |-> records]

NoIo == IoEvent("none", "", <<>>)

\* a float argument: NaN, or the number v
Float(v) == [nan |-> FALSE, v |-> v]

NaN == [nan |-> TRUE, v |-> 0]

NoValidation ==
    [pc |-> "idle",
     args |-> [initial_amount |-> Float(0), interest_rate |-> Float(0),
               years |-> 0, interval |-> "", regular_deposit |-> Float(0)],
     result |-> FALSE, message |-> ""]

Init ==
    /\ pc = "idle"
    /\ args = NoArgs
    /\ intervals_per_year = 0
    /\ total_amount = 0
    /\ total_invested = 0
    /\ year = 0
    /\ period = 0
    /\ data = <<>>
    /\ summary_arg = <<>>
    /\ summary = NoOutcome
    /\ main = NoMain
    /\ io = NoIo
    /\ validated = NoValidation

\* the call, with total_invested starting at 0 instead of initial_amount
Call_invested_zero ==
    /\ pc = "idle"
    /\ \E a \in ValidArgs :
        /\ args' = a
        /\ total_amount' = a.initial_amount
        /\ total_invested' = 0
        /\ intervals_per_year' = INTERVALS[a.interval].periods
    /\ data' = <<>>
    /\ pc' = "for_year"
    /\ UNCHANGED <<year, period, summary_arg, summary>>
    /\ UNCHANGED session

\* the call: lines 45-53
Call ==
    /\ pc = "idle"
    /\ \E a \in ValidArgs :
        /\ args' = a
        /\ total_amount' = a.initial_amount
        /\ total_invested' = a.initial_amount
        /\ intervals_per_year' = INTERVALS[a.interval].periods
    /\ data' = <<>>
    /\ pc' = "for_year"
    /\ UNCHANGED <<year, period, summary_arg, summary>>
    /\ UNCHANGED session

\* for year in range(1, years + 1): the next year begins
NextYear ==
    /\ pc = "for_year"
    /\ year + 1 \in YearRange(args.years)
    /\ year' = year + 1
    /\ period' = 0
    /\ pc' = "for_period"
    /\ UNCHANGED <<args, intervals_per_year, total_amount, total_invested,
                   data, summary_arg, summary>>
    /\ UNCHANGED session

\* one iteration of the inner loop: lines 58-64
Period ==
    /\ pc = "for_period"
    /\ period < intervals_per_year
    /\ total_amount' =
           PeriodAmount(total_amount, rate_per_period, args.regular_deposit)
    /\ total_invested' = PeriodInvested(total_invested, args.regular_deposit)
    /\ period' = period + 1
    /\ UNCHANGED <<pc, args, intervals_per_year, year, data, summary_arg,
                   summary>>
    /\ UNCHANGED session

\* the inner loop is over: data.append(...), lines 67-72
StoreYear ==
    /\ pc = "for_period"
    /\ period = intervals_per_year
    /\ data' = Append(data, YearlyRecord(year, total_amount, total_invested))
    /\ pc' = "for_year"
    /\ UNCHANGED <<args, intervals_per_year, total_amount, total_invested,
                   year, period, summary_arg, summary>>
    /\ UNCHANGED session

\* the outer loop is over: return data
Return ==
    /\ pc = "for_year"
    /\ year + 1 \notin YearRange(args.years)
    /\ pc' = "returned"
    /\ UNCHANGED <<args, intervals_per_year, total_amount, total_invested,
                   year, period, data, summary_arg, summary>>
    /\ UNCHANGED session

---------------------------------------------------------------------------
(* calculate_summary_statistics *)

\* The outcome of a call.  kind: "return" with the dictionary returned, or
\* "raise" with the exception that reaches the caller; reads: the indices of
\* the list that were read.

\* lines 112-132: the statistics of a list that is not empty
SummaryOfRecords(d) ==
    LET final_year == d[Len(d)]
        invested   == final_year.Total_Invested
        interest   == final_year.Interest_Earned
        final      == final_year.Total_Amount
        roi        == truediv(interest, invested)
        growth     == truediv(final, invested)
        ratio      == truediv(interest, invested)
    IN  IF roi.raised \/ growth.raised \/ ratio.raised
        THEN [kind |-> "raise", exception |-> "ZeroDivisionError",
              reads |-> {Len(d)}, result |-> NoDict]
        ELSE [kind |-> "return", exception |-> "", reads |-> {Len(d)},
              result |->
                [total_invested |-> invested,
                 total_interest |-> interest,
                 final_amount |-> final,
                 roi_percentage |-> RoundScaled(roi, 100),
                 \* (final / invested) ** (1 / years): the operands
                 cagr_percentage |-> [base |-> growth, root |-> Len(d)],
                 years |-> Len(d),
                 interest_to_investment_ratio |-> RoundScaled(ratio, 1)]]

\* an empty list gives statistics that are all zero
calculate_summary_statistics_zeroes(d) ==
    IF Len(d) = 0
    THEN [kind |-> "return", exception |-> "", reads |-> {},
          result |->
            [total_invested |-> 0, total_interest |-> 0, final_amount |-> 0,
             roi_percentage |-> 0, cagr_percentage |-> 0, years |-> 0,
             interest_to_investment_ratio |-> 0]]
    ELSE SummaryOfRecords(d)

\* lines 109-110, then lines 112-132
calculate_summary_statistics(d) ==
    IF Len(d) = 0
    THEN [kind |-> "return", exception |-> "", reads |-> {},
          result |-> NoDict]
    ELSE SummaryOfRecords(d)

\* a caller summarises the returned list, or an empty one
Summarize ==
    /\ pc = "returned"
    /\ \E d \in {data, <<>>} :
        /\ summary_arg' = d
        /\ summary' = calculate_summary_statistics(d)
    /\ pc' = "done"
    /\ UNCHANGED <<args, intervals_per_year, total_amount, total_invested,
                   year, period, data>>
    /\ UNCHANGED session

Next ==
    \/ Call
    \/ NextYear
    \/ Period
    \/ StoreYear
    \/ Return
    \/ Summarize

Spec == Init /\ [][Next]_vars

---------------------------------------------------------------------------
(* main (main.py lines 163-206) and its input functions (lines 8-59)       *)

\* what the user types at a prompt: a numeral with its value, or other text
Number(v) == [numeric |-> TRUE, value |-> v]

NotANumber == [numeric |-> FALSE, value |-> 0]

\* the lines the model types: amounts in grid units, rates in percent
TypedAmounts == {NotANumber, Number(-Cents(100)), Number(Cents(100000))}

TypedRates == {NotANumber, Number(-1), Number(5), Number(150)}

TypedDeposits ==
    {NotANumber, Number(-Cents(100)), Number(0), Number(Cents(10000))}

TypedYears == {NotANumber, Number(-1), Number(0), Number(1), Number(2)}

TypedChoices == {NotANumber} \cup {Number(c) : c \in 0..5}

TypedAnswers == {"y", "Y", "n", "N", "maybe"}

\* one pass of a prompt loop: the value returned, or the error printed
Accepted(v) == [returned |-> TRUE, value |-> v, message |-> ""]

Rejected(message) == [returned |-> FALSE, value |-> 0, message |-> message]

\* get_float_input, lines 10-17: float(input(prompt)), then value < 0
get_float_input(typed) ==
    IF ~typed.numeric
    THEN Rejected("Error: Please enter a valid number.")
    ELSE IF typed.value < 0
    THEN Rejected("Error: Please enter a non-negative number.")
    ELSE Accepted(typed.value)

\* get_int_input, lines 22-29: int(input(prompt)), then value <= 0
get_int_input(typed) ==
    IF ~typed.numeric
    THEN Rejected("Error: Please enter a valid integer.")
    ELSE IF typed.value <= 0
    THEN Rejected("Error: Please enter a positive integer.")
    ELSE Accepted(typed.value)

\* get_interval_input, lines 43-50 (input_handlers.py lines 85-92)
get_interval_input(typed) ==
    IF ~typed.numeric
    THEN Rejected("Error: Please enter a valid number.")
    ELSE IF 1 <= typed.value /\ typed.value <= 4
    THEN Accepted(typed.value)
    ELSE Rejected("Error: Please enter a number between 1 and 4.")

\* str.lower on the answers typed
Lower(text) ==
    CASE text = "Y" -> "y"
      [] text = "N" -> "n"
      [] OTHER -> text

\* get_yes_no_input, lines 55-59
get_yes_no_input(typed) ==
    IF Lower(typed) \in {"y", "n"}
    THEN [returned |-> TRUE, value |-> Lower(typed), message |-> ""]
    ELSE [returned |-> FALSE, value |-> "",
          message |-> "Error: Please enter 'y' for Yes or 'n' for No."]

\* the export runs whatever the answer
WantsSave_always(save_data) == TRUE

\* line 188: if save_data == 'y'
WantsSave(save_data) == save_data = "y"

\* line 204: if another_calculation != 'y': break
WantsAnother(another_calculation) == another_calculation = "y"

\* the variables of calculate_compound_interest and of the summary
callee == <<pc, args, intervals_per_year, total_amount, total_invested,
            year, period, data, summary_arg, summary>>

\* a prompt for a number: the value is stored and main moves on, or the
\* error is printed and the prompt is repeated
AskNumber(at, field, outcome, next) ==
    /\ main.pc = at
    /\ IF outcome.returned
       THEN /\ main' = [main EXCEPT ![field] = outcome.value, !.pc = next]
            /\ io' = IoEvent("input", at, <<>>)
       ELSE /\ main' = main
            /\ io' = IoEvent("print", outcome.message, <<>>)
    /\ UNCHANGED <<callee, validated>>

\* line 166
AskInitialAmount ==
    \E typed \in TypedAmounts :
        AskNumber("ask_initial_amount", "initial_amount",
                  get_float_input(typed), "ask_interest_rate")

\* line 167
AskInterestRate ==
    \E typed \in TypedRates :
        AskNumber("ask_interest_rate", "interest_rate",
                  get_float_input(typed), "ask_interval")

\* line 168: the choice typed selects the code
AskInterval ==
    /\ main.pc = "ask_interval"
    /\ \E typed \in TypedChoices :
        LET outcome == get_interval_input(typed)
        IN  IF outcome.returned
            THEN /\ main' = [main EXCEPT
                               !.choice = outcome.value,
                               !.interval = INTERVAL_CODES[outcome.value],
                               !.pc = "ask_regular_deposit"]
                 /\ io' = IoEvent("input", "ask_interval", <<>>)
            ELSE /\ main' = main
                 /\ io' = IoEvent("print", outcome.message, <<>>)
    /\ UNCHANGED <<callee, validated>>

\* line 169
AskRegularDeposit ==
    \E typed \in TypedDeposits :
        AskNumber("ask_regular_deposit", "regular_deposit",
                  get_float_input(typed), "ask_years")

\* line 170
AskYears ==
    \E typed \in TypedYears :
        AskNumber("ask_years", "years", get_int_input(typed), "calculate")

\* line 173, the call: the function starts on the values collected
MainCall ==
    /\ main.pc = "calculate"
    /\ pc = "idle"
    /\ args' = [initial_amount |-> main.initial_amount,
                interest_rate |-> main.interest_rate,
                years |-> main.years,
                interval |-> main.interval,
                regular_deposit |-> main.regular_deposit]
    /\ total_amount' = main.initial_amount
    /\ total_invested' = main.initial_amount
    /\ intervals_per_year' = INTERVALS[main.interval].periods
    /\ data' = <<>>
    /\ pc' = "for_year"
    /\ main' = [main EXCEPT !.pc = "in_calculation"]
    /\ UNCHANGED <<year, period, summary_arg, summary, io, validated>>

\* line 173, the assignment: the list returned becomes main's data and the
\* variables of the function are gone
MainReceive ==
    /\ main.pc = "in_calculation"
    /\ pc = "returned"
    /\ main' = [main EXCEPT !.data = data, !.pc = "display"]
    /\ pc' = "idle"
    /\ args' = NoArgs
    /\ intervals_per_year' = 0
    /\ total_amount' = 0
    /\ total_invested' = 0
    /\ year' = 0
    /\ period' = 0
    /\ data' = <<>>
    /\ UNCHANGED <<summary_arg, summary, io, validated>>

\* lines 176-183: the final values are printed
Display ==
    /\ main.pc = "display"
    /\ io' = IoEvent("print", "results", <<main.data[Len(main.data)]>>)
    /\ main' = [main EXCEPT !.pc = "ask_save"]
    /\ UNCHANGED <<callee, validated>>

\* lines 186-188
AskSave ==
    /\ main.pc = "ask_save"
    /\ \E typed \in TypedAnswers :
        LET outcome == get_yes_no_input(typed)
        IN  IF outcome.returned
            THEN /\ main' = [main EXCEPT
                               !.save_data = outcome.value,
                               !.pc = IF WantsSave(outcome.value)
                                      THEN "make_folder"
                                      ELSE "ask_another"]
                 /\ io' = IoEvent("input", "ask_save", <<>>)
            ELSE /\ main' = main
                 /\ io' = IoEvent("print", outcome.message, <<>>)
    /\ UNCHANGED <<callee, validated>>

\* a step of the export: what is written, with which records
Export(at, op, target, next) ==
    /\ main.pc = at
    /\ io' = IoEvent(op, target, main.data)
    /\ main' = [main EXCEPT !.pc = next]
    /\ UNCHANGED <<callee, validated>>

\* lines 190-193
MakeFolder == Export("make_folder", "write", "folder", "generate_graphs")

\* line 196
GenerateGraphs ==
    Export("generate_graphs", "write", "graphs", "save_to_excel")

\* line 197
SaveToExcel ==
    Export("save_to_excel", "write", "compound_interest_data.xlsx",
           "save_to_csv")

\* line 198
SaveToCsv ==
    Export("save_to_csv", "write", "compound_interest_data.csv",
           "report_saved")

\* lines 199-200
ReportSaved ==
    /\ main.pc = "report_saved"
    /\ io' = IoEvent("print", "Data and graphs saved", <<>>)
    /\ main' = [main EXCEPT !.pc = "ask_another"]
    /\ UNCHANGED <<callee, validated>>

\* lines 203-206
AskAnother ==
    /\ main.pc = "ask_another"
    /\ \E typed \in TypedAnswers :
        LET outcome == get_yes_no_input(typed)
        IN  IF outcome.returned
            THEN /\ main' = [main EXCEPT
                               !.another_calculation = outcome.value,
                               !.pc = IF WantsAnother(outcome.value)
                                      THEN "ask_initial_amount"
                                      ELSE "exit"]
                 /\ io' = IF WantsAnother(outcome.value)
                          THEN IoEvent("input", "ask_another", <<>>)
                          ELSE IoEvent("print", "Goodbye!", <<>>)
            ELSE /\ main' = main
                 /\ io' = IoEvent("print", outcome.message, <<>>)
    /\ UNCHANGED <<callee, validated>>

NextMain ==
    \/ AskInitialAmount
    \/ AskInterestRate
    \/ AskInterval
    \/ AskRegularDeposit
    \/ AskYears
    \/ MainCall
    \/ NextYear
    \/ Period
    \/ StoreYear
    \/ Return
    \/ MainReceive
    \/ Display
    \/ AskSave
    \/ MakeFolder
    \/ GenerateGraphs
    \/ SaveToExcel
    \/ SaveToCsv
    \/ ReportSaved
    \/ AskAnother

SpecMain == Init /\ [][NextMain]_vars

---------------------------------------------------------------------------
(* validate_input_parameters (input_handlers.py lines 117-160) *)

\* x < c and x > c on Python floats: both are False when x is NaN
FloatLt(x, c) == ~x.nan /\ x.v < c

FloatGt(x, c) == ~x.nan /\ x.v > c

Verdict(result, message) == [result |-> result, message |-> message]

\* lines 140-160: the first failing test prints its message and returns False
validate_input_parameters(initial_amount, interest_rate, years, interval, regular_deposit) ==
    IF FloatLt(initial_amount, 0)
    THEN Verdict(FALSE, "Error: Initial amount cannot be negative.")
    ELSE IF FloatLt(interest_rate, 0) \/ FloatGt(interest_rate, 100)
    THEN Verdict(FALSE, "Error: Interest rate must be between 0 and 100.")
    ELSE IF years <= 0 \/ years > 100
    THEN Verdict(FALSE, "Error: Years must be between 1 and 100.")
    ELSE IF \A i \in 1..Len(INTERVAL_CODES) : INTERVAL_CODES[i] # interval
    THEN Verdict(FALSE, "Error: Invalid interval code.")
    ELSE IF FloatLt(regular_deposit, 0)
    THEN Verdict(FALSE, "Error: Regular deposit cannot be negative.")
    ELSE Verdict(TRUE, "")

\* the arguments the model draws: amounts in grid units, rates in percent
ValidateAmounts == {NaN, Float(-1), Float(0), Float(Cents(100000))}

ValidateRates == {NaN, Float(-1), Float(0), Float(100), Float(101)}

ValidateYears == {-1, 0, 1, 100, 101}

ValidateIntervals == {"D", "W", "M", "Y", "X", "d"}

ValidateDeposits == {NaN, Float(-1), Float(0)}

ValidateInputs ==
    [initial_amount : ValidateAmounts,
     interest_rate : ValidateRates,
     years : ValidateYears,
     interval : ValidateIntervals,
     regular_deposit : ValidateDeposits]

\* a call of validate_input_parameters
Validate ==
    /\ validated.pc = "idle"
    /\ \E a \in ValidateInputs :
        LET v == validate_input_parameters(a.initial_amount,
                     a.interest_rate, a.years, a.interval, a.regular_deposit)
        IN  validated' = [pc |-> "done", args |-> a, result |-> v.result,
                          message |-> v.message]
    /\ UNCHANGED <<pc, args, intervals_per_year, total_amount,
                   total_invested, year, period, data, summary_arg, summary,
                   main, io>>

NextValidate == Validate

SpecValidate == Init /\ [][NextValidate]_vars

---------------------------------------------------------------------------
(* Properties *)

Returned == pc \in {"returned", "done"}

\* the totals are those of the last record: the year's record is stored and
\* the next period has not run
YearStored == pc \in {"for_year", "returned", "done"} /\ Len(data) > 0

LastRecord == data[Len(data)]

\* C1: calculate_compound_interest returns exactly `years` records, and the
\* i-th record (1-based) has Year = i: ascending, no gaps, no duplicates.
C1_OneRecordPerYear ==
    /\ \A i \in 1..Len(data) : data[i].Year = i
    /\ Returned => Len(data) = args.years

C1_Witness ==
    /\ Returned
    /\ args.years >= 3
    /\ Len(data) = args.years
    /\ data[3].Year = 3

\* C2: in every compounding period the interest is applied to the balance as
\* it stood before the period's deposit and only then is the deposit added:
\* new balance = old balance * (1 + rate_per_period) + deposit, so the
\* deposit earns no interest in the period in which it is made.
C2_InterestBeforeDeposit ==
    [][(pc = "for_period" /\ period' = period + 1) =>
          /\ total_amount' - args.regular_deposit
                 = ApplyInterest(total_amount, rate_per_period)
          /\ total_amount'
                 = ApplyInterest(total_amount, rate_per_period)
                       + args.regular_deposit]_vars

\* (1000, 5, 1, 'Y', 100): 1000 * 1.05 + 100 = 1150, not (1000 + 100) * 1.05
C2_Witness ==
    /\ args = [initial_amount |-> Cents(100000), interest_rate |-> 5,
               years |-> 1, interval |-> "Y",
               regular_deposit |-> Cents(10000)]
    /\ pc = "for_period"
    /\ period = 1
    /\ total_amount = Cents(115000)
    /\ total_amount # ApplyInterest(Cents(100000) + Cents(10000),
                                    rate_per_period)

C5_InvestedNonDecreasing ==
    \A i \in 1..(Len(data) - 1) :
        data[i + 1].Total_Invested >= data[i].Total_Invested

\* a returned sequence in which 'Total Invested' grows
C5_Witness ==
    /\ Returned
    /\ Len(data) >= 3
    /\ args.regular_deposit > 0
    /\ data[3].Total_Invested > data[2].Total_Invested
    /\ data[2].Total_Invested > data[1].Total_Invested

\* C6: with rate >= 0, deposit >= 0 and initial amount >= 0 the reported
\* 'Total Amount' values are non-decreasing across the returned sequence.
C6_AmountNonDecreasing ==
    (args.interest_rate >= 0 /\ args.regular_deposit >= 0
        /\ args.initial_amount >= 0) =>
        \A i \in 1..(Len(data) - 1) :
            data[i + 1].Total_Amount >= data[i].Total_Amount

\* a returned sequence in which 'Total Amount' grows by interest alone
C6_Witness ==
    /\ Returned
    /\ Len(data) >= 3
    /\ args.interest_rate > 0
    /\ args.regular_deposit = 0
    /\ data[3].Total_Amount > data[2].Total_Amount
    /\ data[2].Total_Amount > data[1].Total_Amount

\* the sequence of n records that all report the same three values
SameRecords(n, amount, invested, interest) ==
    [i \in 1..n |-> [Year |-> i, Total_Amount |-> amount,
                     Total_Invested |-> invested,
                     Interest_Earned |-> interest]]

ArgsOf(initial, rate, years, interval, deposit) ==
    [initial_amount |-> initial, interest_rate |-> rate, years |-> years,
     interval |-> interval, regular_deposit |-> deposit]

\* C7: with a zero annual rate every record has 'Total Amount' = 'Total
\* Invested' and 'Interest Earned' = 0.00; (1000, 0, 5, 'Y', 0) gives five
\* records of 1000.00 / 1000.00 / 0.00 and (0, 0, 1, 'Y', 100) gives one
\* record of 100.00 / 100.00 / 0.00.
C7_ZeroRateEarnsNothing ==
    /\ args.interest_rate = 0 =>
           \A i \in 1..Len(data) :
               /\ data[i].Total_Amount = data[i].Total_Invested
               /\ data[i].Interest_Earned = 0
    /\ (Returned /\ args = ArgsOf(Cents(100000), 0, 5, "Y", 0)) =>
           data = SameRecords(5, Cents(100000), Cents(100000), 0)
    /\ (Returned /\ args = ArgsOf(0, 0, 1, "Y", Cents(10000))) =>
           data = SameRecords(1, Cents(10000), Cents(10000), 0)

\* the first example has returned its five records
C7_Witness ==
    /\ Returned
    /\ args = ArgsOf(Cents(100000), 0, 5, "Y", 0)
    /\ Len(data) = 5
    /\ data[5].Total_Amount = Cents(100000)
    /\ data[5].Interest_Earned = 0

\* the manual calculation, one step per year:
\* balance(0) = X, balance(y) = balance(y - 1) * (1 + R / 100) + D
RECURSIVE ManualBalance(_, _, _, _)
ManualBalance(X, R, D, y) ==
    IF y = 0 THEN X
    ELSE ApplyInterest(ManualBalance(X, R, D, y - 1),
                       [num |-> R, den |-> 100]) + D

ManualInvested(X, D, y) == X + y * D

\* C8: with the yearly interval the unrounded balance after year y is
\* balance(y - 1) * (1 + R / 100) + D with balance(0) = X, the amount
\* invested after year y is X + y * D, and (1000, 5, 1, 'Y', 0) yields the
\* one record 1050.00 / 1000.00 / 50.00.
C8_YearlyMatchesManual ==
    /\ (args.interval = "Y" /\ pc \in {"for_year", "returned", "done"}) =>
           /\ total_amount
                  = ManualBalance(args.initial_amount, args.interest_rate,
                                  args.regular_deposit, year)
           /\ total_invested
                  = ManualInvested(args.initial_amount,
                                   args.regular_deposit, year)
    /\ args.interval = "Y" =>
           \A y \in 1..Len(data) :
               LET b == ManualBalance(args.initial_amount,
                                      args.interest_rate,
                                      args.regular_deposit, y)
                   v == ManualInvested(args.initial_amount,
                                       args.regular_deposit, y)
               IN  data[y] = [Year |-> y, Total_Amount |-> round2(b),
                              Total_Invested |-> round2(v),
                              Interest_Earned |-> round2(b - v)]
    /\ (Returned /\ args = ArgsOf(Cents(100000), 5, 1, "Y", 0)) =>
           data = SameRecords(1, Cents(105000), Cents(100000), Cents(5000))

\* a yearly run with interest and deposits, three years in
C8_Witness ==
    /\ Returned
    /\ args = ArgsOf(Cents(100000), 5, 3, "Y", Cents(10000))
    /\ total_amount = ManualBalance(Cents(100000), 5, Cents(10000), 3)
    /\ data[3].Total_Invested = Cents(130000)
    /\ data[3].Total_Amount > Cents(130000)

\* C9: calculate_summary_statistics called with an empty sequence fails or
\* returns an empty result, and reads no record and computes no metric.
C9_EmptyInput ==
    (pc = "done" /\ summary_arg = <<>>) =>
        /\ \/ summary.kind = "raise"
           \/ summary.kind = "return" /\ DOMAIN summary.result = {}
        /\ summary.reads = {}
        /\ DOMAIN summary.result = {}

\* the empty list was summarised
C9_Witness ==
    /\ pc = "done"
    /\ summary_arg = <<>>
    /\ summary.kind = "return"
    /\ DOMAIN summary.result = {}

\* C10: calculate_summary_statistics called with a non-empty sequence whose
\* last record has 'Total Invested' = 0 raises ZeroDivisionError to its
\* caller and returns no statistics.
C10_ZeroInvestedRaises ==
    (pc = "done" /\ Len(summary_arg) > 0
        /\ summary_arg[Len(summary_arg)].Total_Invested = 0) =>
        /\ summary.kind = "raise"
        /\ summary.exception = "ZeroDivisionError"
        /\ DOMAIN summary.result = {}

\* a run that invested nothing was summarised
C10_Witness ==
    /\ pc = "done"
    /\ Len(summary_arg) > 0
    /\ summary_arg[Len(summary_arg)].Total_Invested = 0
    /\ summary.kind = "raise"

\* C11 as claimed: the last record's 'Total Invested' is 0 only if
\* initial_amount = 0 and the deposit is 0.
C11_Original ==
    (Returned /\ LastRecord.Total_Invested = 0) =>
        (args.initial_amount = 0 /\ args.regular_deposit = 0)

\* C11 amended: the last record's 'Total Invested' is the amount paid in
\* (initial amount plus every deposit) rounded to 2 places, so it is 0 only
\* if the amount paid in is at most half a cent, and it is not 0 when the
\* initial amount or the deposit is at least one cent.
C11_ZeroDivisorOnlyBelowHalfCent ==
    Returned =>
        /\ LastRecord.Total_Invested = round2(Contribution(args))
        /\ LastRecord.Total_Invested = 0 =>
               2 * Contribution(args) <= UnitsPerCent
        /\ (args.initial_amount >= Cents(1)
               \/ args.regular_deposit >= Cents(1)) =>
               LastRecord.Total_Invested > 0

\* a positive initial amount below half a cent: the divisor is 0
C11_Witness ==
    /\ Returned
    /\ args.initial_amount > 0
    /\ args.regular_deposit = 0
    /\ LastRecord.Total_Invested = 0

\* C12: in the interactive program every call that reaches
\* calculate_compound_interest has initial_amount >= 0,
\* 0 <= interest_rate <= 100, 1 <= years <= 100, interval in {D, W, M, Y}
\* and regular_deposit >= 0.
C12_CallsMeetPreconditions ==
    pc # "idle" =>
        /\ args.initial_amount >= 0
        /\ args.interest_rate >= 0
        /\ args.interest_rate <= 100
        /\ args.years >= 1
        /\ args.years <= 100
        /\ args.interval \in {"D", "W", "M", "Y"}
        /\ args.regular_deposit >= 0

\* x >= c and x <= c on Python floats, as the preconditions are written:
\* False when x is NaN
FloatGe(x, c) == ~x.nan /\ x.v >= c

FloatLe(x, c) == ~x.nan /\ x.v <= c

\* the five documented preconditions of a call
Preconditions(a) ==
    /\ FloatGe(a.initial_amount, 0)
    /\ FloatGe(a.interest_rate, 0)
    /\ FloatLe(a.interest_rate, 100)
    /\ a.years >= 1
    /\ a.years <= 100
    /\ a.interval \in {"D", "W", "M", "Y"}
    /\ FloatGe(a.regular_deposit, 0)

\* C13: validate_input_parameters returns True if and only if all five
\* preconditions hold (initial_amount >= 0, 0 <= interest_rate <= 100,
\* 1 <= years <= 100, interval in INTERVAL_CODES, regular_deposit >= 0) and
\* False for every other combination.
C13_TrueIffPreconditions ==
    validated.pc = "done" =>
        (validated.result <=> Preconditions(validated.args))

\* C13 on arguments that are numbers: there the equivalence holds, with the
\* boundary values 0, 100 and 1, 100 accepted and 0, 101 years rejected
C13_TrueIffPreconditionsOfNumbers ==
    (/\ validated.pc = "done"
     /\ ~validated.args.initial_amount.nan
     /\ ~validated.args.interest_rate.nan
     /\ ~validated.args.regular_deposit.nan) =>
        (validated.result <=> Preconditions(validated.args))

\* the documented number of compounding periods of a year
PeriodsPerYear(code) ==
    CASE code = "D" -> 365
      [] code = "W" -> 52
      [] code = "M" -> 12
      [] code = "Y" -> 1

\* C14: a simulated year applies exactly the fixed number of compounding
\* periods of its interval (D = 365, W = 52, M = 12, Y = 1), so that after
\* year y the unrounded total invested is initial_amount + y *
\* periods_per_year * regular_deposit, and the menu choices 1..4 of
\* get_interval_input map in order to D, W, M, Y.
C14_PeriodsPerInterval ==
    /\ pc \in {"for_year", "for_period", "returned"} =>
           intervals_per_year = PeriodsPerYear(args.interval)
    /\ pc = "for_period" => period <= PeriodsPerYear(args.interval)
    /\ (pc \in {"for_year", "returned"} /\ year > 0) =>
           period = PeriodsPerYear(args.interval)
    /\ pc \in {"for_year", "returned"} =>
           total_invested
               = args.initial_amount
                   + year * PeriodsPerYear(args.interval)
                       * args.regular_deposit
    /\ main.choice # 0 =>
           /\ main.choice \in 1..4
           /\ main.interval = <<"D", "W", "M", "Y">>[main.choice]

\* choice 2 was typed and two weekly years with deposits are done
C14_Witness ==
    /\ main.choice = 2
    /\ args.interval = "W"
    /\ pc = "for_year"
    /\ year = 2
    /\ args.regular_deposit > 0
    /\ total_invested = args.initial_amount + 104 * args.regular_deposit

\* the steps of main between the answer 'y' to the save prompt and the
\* prompt for another calculation
ExportSteps ==
    {"make_folder", "generate_graphs", "save_to_excel", "save_to_csv",
     "report_saved"}

\* the order in which main passes through its steps
Flow ==
    {<<"ask_initial_amount", "ask_interest_rate">>,
     <<"ask_interest_rate", "ask_interval">>,
     <<"ask_interval", "ask_regular_deposit">>,
     <<"ask_regular_deposit", "ask_years">>,
     <<"ask_years", "calculate">>,
     <<"calculate", "in_calculation">>,
     <<"in_calculation", "display">>,
     <<"display", "ask_save">>,
     <<"ask_save", "make_folder">>,
     <<"ask_save", "ask_another">>,
     <<"make_folder", "generate_graphs">>,
     <<"generate_graphs", "save_to_excel">>,
     <<"save_to_excel", "save_to_csv">>,
     <<"save_to_csv", "report_saved">>,
     <<"report_saved", "ask_another">>,
     <<"ask_another", "ask_initial_amount">>,
     <<"ask_another", "exit">>}

\* the balance after n periods, computed from the start: the first half of
\* the periods gives the value h, from which the rest of the periods go on
RECURSIVE AfterPeriods(_, _, _, _)
AfterPeriods(amount, rpp, deposit, n) ==
    IF n = 0 THEN amount
    ELSE IF n = 1 THEN PeriodAmount(amount, rpp, deposit)
    ELSE CHOOSE r \in {AfterPeriods(h, rpp, deposit, n - (n \div 2)) :
                          h \in {AfterPeriods(amount, rpp, deposit, n \div 2)}} :
             TRUE

\* the complete sequence of the run whose parameters main holds
CompleteSequence(m) ==
    LET p == PeriodsPerYear(m.interval)
    IN  [y \in 1..m.years |->
            YearlyRecord(y,
                AfterPeriods(m.initial_amount,
                             RatePerPeriod(m.interest_rate, p),
                             m.regular_deposit, y * p),
                m.initial_amount + y * p * m.regular_deposit)]

\* C15: in the session loop an export (folder, graphs, Excel, CSV) happens
\* in a run only if the answer to that run's save prompt was 'y' and only
\* after that run's simulation has returned its complete sequence; a run
\* whose save answer is 'n' writes nothing; the session ends exactly when
\* the answer to 'another calculation' is not 'y', otherwise a new run
\* starts, which collects its five parameters afresh and computes from them.
C15_ExportOnlyOnYes ==
    /\ [](io.op = "write" =>
             /\ main.save_data = "y"
             /\ pc = "idle"
             /\ io.data = main.data
             /\ main.data = CompleteSequence(main))
    /\ [](main.pc \in ExportSteps => main.save_data = "y")
    /\ [](main.pc = "exit" => main.another_calculation = "n")
    /\ [][main'.pc # main.pc => <<main.pc, main'.pc>> \in Flow]_vars
    /\ [][(io'.op = "write" /\ main' # main) =>
             (main.pc \in ExportSteps /\ main.save_data = "y")]_vars
    /\ [][(main.pc = "ask_save" /\ main'.pc # "ask_save") =>
             \/ main'.save_data = "y" /\ main'.pc = "make_folder"
             \/ /\ main'.save_data = "n"
                /\ main'.pc = "ask_another"
                /\ io'.op # "write"]_vars
    /\ [][(main.pc = "ask_another" /\ main'.pc # "ask_another") =>
             \/ /\ main'.another_calculation = "y"
                /\ main'.pc = "ask_initial_amount"
             \/ /\ main'.another_calculation # "y"
                /\ main'.pc = "exit"]_vars
    /\ [][(main.pc = "calculate" /\ main'.pc # "calculate") =>
             /\ args' = [initial_amount |-> main.initial_amount,
                         interest_rate |-> main.interest_rate,
                         years |-> main.years,
                         interval |-> main.interval,
                         regular_deposit |-> main.regular_deposit]
             /\ data' = <<>>
             /\ total_amount' = main.initial_amount
             /\ total_invested' = main.initial_amount]_vars

\* the CSV file of a later run is written: the answer 'y' to 'another
\* calculation' was given before, and this run's save answer is 'y'
C15_Witness ==
    /\ io.op = "write"
    /\ io.target = "compound_interest_data.csv"
    /\ main.another_calculation = "y"
    /\ main.save_data = "y"
    /\ Len(main.data) = main.years

===========================================================================
